---- MODULE Spec2Model ----
(***************************************************************************)
(* Model of lmcache_vllm/vllm_adapter.py: the per-step interception layer  *)
(* between vLLM's scheduler and its attention computation.  One inference  *)
(* step is: the scheduler hands over a batch plan (model_input), the       *)
(* retrieve mode is classified, KV is retrieved and injected and the plan  *)
(* possibly rebuilt, the plan is executed, the store actions are           *)
(* classified.                                                             *)
(*                                                                         *)
(* Tensors and Python lists are sequences; Python's 0-based indices are    *)
(* kept in the values (positions, slots, boundaries) and translated to     *)
(* 1-based sequence indices only inside At and Slice.                      *)
(***************************************************************************)
EXTENDS Integers, Sequences, FiniteSets, TLC

\* ------------------------------------------------------------------ bounds
\* largest number of sequences in one batch
MaxSeqs == 2
\* largest number of tokens of one sequence
MaxLen == 3
\* number of physical blocks of the paged KV memory
NumBlocks == 3

\* ------------------------------------------------------- program constants
\* cache_config.block_size: tokens per paged-memory block
BlockSize == 2
\* engine.chunk_size: the store/lookup alignment unit
ChunkSize == 2
\* the pipeline-parallel layer range [start_layer, end_layer) of this worker
StartLayer == 1
EndLayer == 3

\* Python's None where the field otherwise holds a string or nothing
None == "None"
\* LMCacheEngineBuilder.get(ENGINE_NAME) before any engine is created
NoEngine ==
    [registered |-> FALSE, chunk_size |-> ChunkSize,
     save_decode_cache |-> FALSE, enable_blending |-> FALSE]
\* attn_metadata without a blend_metadata attribute
NoBlend == [present |-> FALSE, processed_layer_count |-> 0]
\* the query_len of a decode group in the sampling metadata (None)
NoQueryLen == 0 - 1

\* ------------------------------------------------------------ enumerations
StoreStatus == {"PREFILL", "CHUNK_PREFILL", "DECODE", "SUFFIX_PREFILL", "NONE"}
RetrieveStatus == {"PREFILL", "CHUNK_PREFILL", "CHUNK_PREFILL_LAST", "NONE"}
\* what a Python call can end in besides a value
AssertionError == "AssertionError"
IndexError == "IndexError"

\* ---------------------------------------------------------- list helpers
Min(a, b) == IF a < b THEN a ELSE b
Max(a, b) == IF a > b THEN a ELSE b

\* Python s[i] for 0 <= i < len(s)
At(s, i) == s[i + 1]

\* Python s[a:b] for a list or a 1-d tensor: both ends are clamped to the
\* list, a negative end counts from the back
PyIdx(n, i) == IF i < 0 THEN Max(n + i, 0) ELSE Min(i, n)
Slice(s, a, b) == SubSeq(s, PyIdx(Len(s), a) + 1, PyIdx(Len(s), b))
\* Python s[a:]
SliceFrom(s, a) == Slice(s, a, Len(s))

RECURSIVE Cat(_)
\* torch.cat of a list of 1-d tensors
Cat(ss) == IF ss = <<>> THEN <<>> ELSE Head(ss) \o Cat(Tail(ss))

RECURSIVE SumSeq(_)
SumSeq(s) == IF s = <<>> THEN 0 ELSE Head(s) + SumSeq(Tail(s))

RECURSIVE MaxSeq(_)
MaxSeq(s) == IF s = <<>> THEN 0 ELSE Max(Head(s), MaxSeq(Tail(s)))

\* the 0-based index range 0..n-1
Range0(n) == 0 .. (n - 1)

\* pad_sequence(rows, batch_first=True): right-pad with 0 to the longest row
PadRow(row, w) == [j \in 1 .. w |-> IF j <= Len(row) THEN row[j] ELSE 0]
pad_sequence(rows) ==
    LET w == MaxSeq([i \in 1 .. Len(rows) |-> Len(rows[i])])
    IN  [i \in 1 .. Len(rows) |-> PadRow(rows[i], w)]

\* ------------------------------------------------- the scheduler's batches
\* One scheduled sequence: its full token count len (seq_data.get_len()),
\* the tokens ctx the engine has already computed for it, and the tokens q
\* it computes this step.
\*   prefill: the prompt's last (or only) pass, ctx + q = len, samples
\*   chunk:   a non-final chunk of a chunked prefill, ctx + q < len
\*   decode:  one new token, ctx = len - 1
PrefillCfgs ==
    {[kind |-> "prefill", len |-> L, ctx |-> c, q |-> L - c] :
        <<L, c>> \in {x \in (1 .. MaxLen) \X (0 .. MaxLen) : x[2] < x[1]}}
ChunkCfgs ==
    {[kind |-> "chunk", len |-> t[1], ctx |-> t[2], q |-> t[3]] :
        t \in {x \in (1 .. MaxLen) \X (0 .. MaxLen) \X (1 .. MaxLen) :
                  x[2] + x[3] < x[1]}}
DecodeCfgs ==
    {[kind |-> "decode", len |-> L, ctx |-> L - 1, q |-> 1] : L \in 2 .. MaxLen}

\* A sequence group: one sequence while it is a prompt, n parallel-sampling
\* siblings of the same length while it decodes.
GroupCfgs ==
    {[cfg |-> c, n |-> 1] : c \in PrefillCfgs \cup ChunkCfgs}
    \cup {[cfg |-> c, n |-> n] : <<c, n>> \in DecodeCfgs \X (1 .. MaxSeqs)}

IsPromptCfg(g) == g.cfg.kind # "decode"

\* blocks a sequence of L tokens occupies
BlocksFor(L) == (L + BlockSize - 1) \div BlockSize

\* The scheduler orders prompt groups before decode groups, and schedules
\* only sequences whose blocks the paged memory holds.
Batches ==
    UNION {
        {b \in [1 .. k -> GroupCfgs] :
            /\ SumSeq([i \in 1 .. k |-> b[i].n]) <= MaxSeqs
            /\ SumSeq([i \in 1 .. k |-> b[i].n * BlocksFor(b[i].cfg.len)])
                   <= NumBlocks
            /\ \A i \in 1 .. (k - 1) : IsPromptCfg(b[i + 1]) => IsPromptCfg(b[i])}
        : k \in 1 .. MaxSeqs }

\* block tables: the sequences' blocks are handed out in batch order, each
\* sequence owning its own
BlockTable(first_block, L) == [j \in 1 .. BlocksFor(L) |-> first_block + j - 1]

\* the flat list of a batch's sequences: group index, sequence id, shape
\* and block table
RECURSIVE FlatFrom(_, _, _, _)
FlatFrom(b, g, next_id, next_block) ==
    IF g > Len(b) THEN <<>>
    ELSE [j \in 1 .. b[g].n |->
             [g |-> g, seq_id |-> next_id + j - 1, cfg |-> b[g].cfg,
              block_table |->
                  BlockTable(next_block + (j - 1) * BlocksFor(b[g].cfg.len),
                             b[g].cfg.len)]]
         \o FlatFrom(b, g + 1, next_id + b[g].n,
                     next_block + b[g].n * BlocksFor(b[g].cfg.len))
FlatSeqs(b) == FlatFrom(b, 1, 1, 0)

\* token p of sequence seq_id; every token of a batch is distinct
TokenId(seq_id, p) == seq_id * 10 + p
TokenIds(seq_id, L) == [j \in 1 .. L |-> TokenId(seq_id, j - 1)]

\* the KV entry of token p of sequence seq_id, and an unwritten slot
KVOf(seq_id, p) == TokenId(seq_id, p)
Empty == 0 - 1

NumSlots == NumBlocks * BlockSize

\* compute_slot_mapping: the physical slot of logical position p
SlotOf(block_table, p) ==
    At(block_table, p \div BlockSize) * BlockSize + (p % BlockSize)

\* ------------------------------------------------ the original batch plan
SeqGroupMetadata(b, g) ==
    LET mine == SelectSeq(FlatSeqs(b), LAMBDA s : s.g = g)
        ids == [j \in 1 .. Len(mine) |-> mine[j].seq_id]
        idset == {ids[j] : j \in 1 .. Len(ids)}
    IN  [request_id |-> g,
         is_prompt |-> IsPromptCfg(b[g]),
         do_sample |-> b[g].cfg.kind # "chunk",
         seq_ids |-> ids,
         seq_data |-> [s \in idset |-> [token_ids |-> TokenIds(s, b[g].cfg.len)]],
         block_tables |->
             [s \in idset |->
                 mine[CHOOSE j \in 1 .. Len(mine) : mine[j].seq_id = s].block_table]]

\* cumulative boundaries <<0, q1, q1 + q2, ...>> of a list of query lengths
RECURSIVE CumSum(_, _)
CumSum(qs, from) ==
    IF qs = <<>> THEN <<from>> ELSE <<from>> \o CumSum(Tail(qs), from + Head(qs))

ModelInput(b, blend) ==
    LET fs == FlatSeqs(b)
        n == Len(fs)
        qs == [k \in 1 .. n |-> fs[k].cfg.q]
        qsl == CumSum(qs, 0)
        positions(k) == [j \in 1 .. fs[k].cfg.q |-> fs[k].cfg.ctx + j - 1]
        bt(k) == fs[k].block_table
        sampling == SelectSeq([k \in 1 .. n |-> k],
                              LAMBDA k : fs[k].cfg.kind # "chunk")
    IN  [input_tokens |->
             Cat([k \in 1 .. n |->
                 [j \in 1 .. fs[k].cfg.q |->
                     TokenId(fs[k].seq_id, fs[k].cfg.ctx + j - 1)]]),
         input_positions |-> Cat([k \in 1 .. n |-> positions(k)]),
         seq_lens |-> [k \in 1 .. n |-> fs[k].cfg.ctx + fs[k].cfg.q],
         query_lens |-> qs,
         lora_mapping |-> <<"lora_mapping", n>>,
         lora_requests |-> {},
         attn_metadata |->
             [seq_lens |-> [k \in 1 .. n |-> fs[k].cfg.ctx + fs[k].cfg.q],
              num_prefills |->
                  Cardinality({k \in 1 .. n : fs[k].cfg.kind # "decode"}),
              num_prefill_tokens |->
                  SumSeq([k \in 1 .. n |->
                      IF fs[k].cfg.kind # "decode" THEN fs[k].cfg.q ELSE 0]),
              num_decode_tokens |->
                  Cardinality({k \in 1 .. n : fs[k].cfg.kind = "decode"}),
              slot_mapping |->
                  Cat([k \in 1 .. n |->
                      [j \in 1 .. fs[k].cfg.q |->
                          SlotOf(bt(k), fs[k].cfg.ctx + j - 1)]]),
              max_query_len |-> MaxSeq(qs),
              block_tables |-> pad_sequence([k \in 1 .. n |-> bt(k)]),
              query_start_loc |-> qsl,
              context_lens_tensor |-> [k \in 1 .. n |-> fs[k].cfg.ctx],
              blend_metadata |-> blend,
              cached_prefill_metadata |-> "cached"],
         prompt_adapter_mapping |-> <<"prompt_adapter_mapping", n>>,
         prompt_adapter_requests |-> {},
         multi_modal_kwargs |-> <<"multi_modal_kwargs", n>>,
         request_ids_to_seq_ids |->
             [g \in 1 .. Len(b) |-> SeqGroupMetadata(b, g).seq_ids],
         finished_requests_ids |-> <<"finished", Len(b)>>,
         virtual_engine |-> 0,
         sampling_metadata |->
             [selected_token_indices |->
                  [j \in 1 .. Len(sampling) |-> qsl[sampling[j] + 1] - 1],
              seq_groups |->
                  [g \in 1 .. Len(b) |->
                      [seq_ids |-> SeqGroupMetadata(b, g).seq_ids,
                       do_sample |-> b[g].cfg.kind # "chunk",
                       query_len |->
                           IF IsPromptCfg(b[g]) THEN b[g].cfg.q ELSE NoQueryLen]]],
         is_prompt |-> IsPromptCfg(b[1]),
         async_callback |-> None,
         seq_group_metadata_list |->
             [g \in 1 .. Len(b) |-> SeqGroupMetadata(b, g)]]

\* the paged memory the step starts from: one slot table per layer of the
\* worker's range, holding the KV of the tokens the engine already computed
InitialLayer(b) ==
    LET fs == FlatSeqs(b)
        Holds(k, p, slot) ==
            p < fs[k].cfg.ctx /\ SlotOf(fs[k].block_table, p) = slot
    IN  [slot \in Range0(NumSlots) |->
            IF \E k \in 1 .. Len(fs), p \in Range0(MaxLen) : Holds(k, p, slot)
            THEN LET k == CHOOSE k \in 1 .. Len(fs) :
                          \E p \in Range0(MaxLen) : Holds(k, p, slot)
                     p == CHOOSE p \in Range0(MaxLen) : Holds(k, p, slot)
                 IN  KVOf(fs[k].seq_id, p)
            ELSE Empty]

\* kv_caches as the model runner passes it: None, a list of None (the
\* memory-profiling run) or one paged buffer per layer
NoLayer == [is_none |-> TRUE, slots |-> <<>>]
KvCaches(mode, b) ==
    CASE mode = "None" -> [is_none |-> TRUE, layers |-> <<>>]
      [] mode = "Profile" ->
            [is_none |-> FALSE,
             layers |-> [l \in 1 .. (EndLayer - StartLayer) |-> NoLayer]]
      [] OTHER ->
            [is_none |-> FALSE,
             layers |-> [l \in 1 .. (EndLayer - StartLayer) |->
                            [is_none |-> FALSE, slots |-> InitialLayer(b)]]]

\* ---------------------------------------------------------- classification
\* AttentionMetadata.prefill_metadata: None when the batch has no prefill
prefill_metadata(attn_metadata) ==
    IF attn_metadata.num_prefills = 0 THEN None ELSE "prefill_metadata"

\* variant: only a missing kv_caches counts as a profiling run
is_profile_run_whole_only(kv) == kv.is_none

\* is_profile_run = (kv_caches is None) or (kv_caches[0] is None)
is_profile_run(kv) == kv.is_none \/ At(kv.layers, 0).is_none

\* variant: a batch in which every sequence samples is a last chunk
PrefillRunStatusLast(selected_token_indices, seq_lens) ==
    IF Len(selected_token_indices) = 0 THEN
        IF Len(seq_lens) # 1 THEN AssertionError
        ELSE "CHUNK_PREFILL"
    ELSE IF Len(selected_token_indices) = Len(seq_lens)
    THEN "CHUNK_PREFILL_LAST"
    ELSE "NONE"

\* the mode of an all-prefill batch, by the number of sampled positions
PrefillRunStatus(selected_token_indices, seq_lens) ==
    IF Len(selected_token_indices) = 0 THEN
        IF Len(seq_lens) # 1 THEN AssertionError
        ELSE "CHUNK_PREFILL"
    ELSE IF Len(selected_token_indices) = Len(seq_lens) THEN "PREFILL"
    ELSE "NONE"

lmcache_should_retrieve(eng, mi, kv) ==
    LET seq_lens == mi.attn_metadata.seq_lens
        has_engine == eng.registered
    IN  IF ~has_engine \/ kv.is_none THEN "NONE"
        ELSE
        LET attn_meta == mi.attn_metadata
            prefill_meta == prefill_metadata(attn_meta)
            is_all_prefill_run ==
                (attn_meta.num_prefills = Len(seq_lens)) /\ prefill_meta # None
            selected_token_indices == mi.sampling_metadata.selected_token_indices
        IN  IF is_profile_run(kv) THEN "NONE"
            ELSE IF is_all_prefill_run
            THEN PrefillRunStatus(selected_token_indices, seq_lens)
            ELSE "NONE"

\* variant: the blending pass is never taken to have run
is_blend_effective_never(attn_metadata) == FALSE

is_blend_effective(attn_metadata) ==
    LET blend_metadata == attn_metadata.blend_metadata
    IN  IF ~blend_metadata.present THEN FALSE
        ELSE blend_metadata.processed_layer_count > 0

\* Python lst[i] = v on the list held in st.store_status; an index outside the
\* list raises IndexError, which ends the call
SetAt(st, i, v) ==
    IF st.error # "ok" THEN st
    ELSE IF i < 0 \/ i >= Len(st.store_status) THEN [st EXCEPT !.error = IndexError]
    ELSE [st EXCEPT !.store_status[i + 1] = v]

\* the inner loop of the all-prefill branch over one group's seq_data
RECURSIVE StoreLabelSeqs(_, _, _)
StoreLabelSeqs(st, lens, selected_token_indices) ==
    IF lens = <<>> \/ st.error # "ok" THEN st
    ELSE IF st.selected_token_indices_idx >= Len(selected_token_indices)
    THEN [st EXCEPT !.error = IndexError]
    ELSE LET labelled ==
                 SetAt(st, st.seq_data_idx,
                       IF Head(lens) - 1 #
                              At(selected_token_indices,
                                 st.selected_token_indices_idx)
                       THEN "SUFFIX_PREFILL" ELSE "PREFILL")
         IN  StoreLabelSeqs(
                 [labelled EXCEPT
                    !.seq_data_idx = st.seq_data_idx + 1,
                    !.selected_token_indices_idx =
                        st.selected_token_indices_idx + 1],
                 Tail(lens), selected_token_indices)

\* the loop of the all-prefill branch over seq_group_metadata_list
RECURSIVE StoreLabelGroups(_, _, _)
StoreLabelGroups(st, groups, selected_token_indices) ==
    IF groups = <<>> \/ st.error # "ok" THEN st
    ELSE LET seq_group_metadata == Head(groups)
         IN  IF ~seq_group_metadata.do_sample
             THEN StoreLabelGroups(
                     [SetAt(st, st.seq_data_idx, "CHUNK_PREFILL") EXCEPT
                        !.seq_data_idx = st.seq_data_idx + 1],
                     Tail(groups), selected_token_indices)
             ELSE StoreLabelGroups(
                     StoreLabelSeqs(
                         st,
                         [j \in 1 .. Len(seq_group_metadata.seq_ids) |->
                             Len(seq_group_metadata.seq_data[
                                     seq_group_metadata.seq_ids[j]].token_ids)],
                         selected_token_indices),
                     Tail(groups), selected_token_indices)

\* variant: every sequence is saved after every decode step
DecodeLabelsUnaligned(eng, seq_lens) ==
    [k \in 1 .. Len(seq_lens) |->
        IF eng.save_decode_cache THEN "DECODE" ELSE "NONE"]

\* the labels of a batch that is not all prefill: when the engine saves the
\* decode cache, DECODE at the chunk boundaries
DecodeLabels(eng, seq_lens) ==
    [k \in 1 .. Len(seq_lens) |->
        IF eng.save_decode_cache /\ seq_lens[k] % eng.chunk_size = 0
        THEN "DECODE" ELSE "NONE"]

\* The result is [error, store_status]: error is "ok" and store_status the
\* list of labels, or error names the exception the call raised.
lmcache_should_store(eng, mi, kv) ==
    LET seq_lens == mi.attn_metadata.seq_lens
        store_status == [k \in 1 .. Len(seq_lens) |-> "NONE"]
        has_engine == eng.registered
        Return(labels) == [error |-> "ok", store_status |-> labels]
    IN  IF ~has_engine THEN Return(store_status)
        ELSE
        LET attn_meta == mi.attn_metadata
            prefill_meta == prefill_metadata(attn_meta)
            is_all_prefill_run ==
                (attn_meta.num_prefills = Len(seq_lens)) /\ prefill_meta # None
        IN  IF is_blend_effective(attn_meta) THEN Return(store_status)
            ELSE IF is_profile_run(kv) THEN Return(store_status)
            ELSE IF is_all_prefill_run THEN
                LET st == StoreLabelGroups(
                              [error |-> "ok",
                               store_status |-> store_status,
                               seq_data_idx |-> 0,
                               selected_token_indices_idx |-> 0],
                              mi.seq_group_metadata_list,
                              mi.sampling_metadata.selected_token_indices)
                IN  [error |-> st.error, store_status |-> st.store_status]
            ELSE Return(DecodeLabels(eng, seq_lens))

\* ------------------------------------------------------ the batch rewriter
\* variant: the rebuilt metadata are shallow copies that share their fields
\* with the plan passed in, so the assignments show through
OriginalAliased(mi, rebuilt_attn_metadata, rebuilt_sampling_metadata) ==
    [mi EXCEPT !.attn_metadata = rebuilt_attn_metadata,
               !.sampling_metadata = rebuilt_sampling_metadata]

\* deepcopy(x): the copy is a value of its own, so what the rewriter then
\* assigns to the copy's fields leaves x as it was; the plan the caller
\* still holds after the rewrite is therefore the plan it passed in
OriginalAfterRebuild(mi, rebuilt_attn_metadata, rebuilt_sampling_metadata) == mi

\* rebuilt_sampling_metadata.seq_groups[idx].query_len = q_len for every idx
SetQueryLens(seq_groups, rebuilt_query_lens) ==
    [g \in 1 .. Len(seq_groups) |->
        IF g <= Len(rebuilt_query_lens)
        THEN [seq_groups[g] EXCEPT !.query_len = rebuilt_query_lens[g]]
        ELSE seq_groups[g]]

\* variant: q_len itself is appended, not the running sum
RebuiltQueryStartLocPerSeq(rebuilt_query_lens) == <<0>> \o rebuilt_query_lens

\* rebuilt_query_start_loc: [0], then last_query_start_loc += q_len is
\* appended for every sequence
RebuiltQueryStartLoc(rebuilt_query_lens) == CumSum(rebuilt_query_lens, 0)

\* variant: the query length counts the last computed token again
QLenInclusive(num_token, num_computed_token) ==
    num_token - num_computed_token + 1

\* q_len = num_token - num_computed_token
QLen(num_token, num_computed_token) == num_token - num_computed_token

\* variant: the slice starts inside the sequence, without the batch offset
StartIdxLocal(start_pos, lmc_num_computed_tokens) == lmc_num_computed_tokens

\* start_input_pos_idx = start_slot_idx = start_pos + lmc_num_computed_tokens
StartIdx(start_pos, lmc_num_computed_tokens) ==
    start_pos + lmc_num_computed_tokens

\* variant: the sampling index is the boundary itself
SelectedIndexBoundary(last_query_start_loc) == last_query_start_loc

\* rebuilt_selected_token_indices.append(last_query_start_loc - 1)
SelectedIndex(last_query_start_loc) == last_query_start_loc - 1

\* variant: the last sequence's query length, not the running maximum
RebuiltMaxQueryLenLast(rebuilt_query_lens) ==
    IF rebuilt_query_lens = <<>> THEN 0
    ELSE rebuilt_query_lens[Len(rebuilt_query_lens)]

\* rebuilt_max_query_len = max(q_len, rebuilt_max_query_len), from 0
RebuiltMaxQueryLen(rebuilt_query_lens) == MaxSeq(rebuilt_query_lens)

\* The result is [error, model_input, original]: error is "ok", model_input
\* the rebuilt plan and original the plan passed in as the call leaves it, or
\* error names the exception raised.
build_partial_prefill_input(mi, full_tokens_list, num_computed_tokens_list, start_pos_list, slot_mapping_flat, lmc_num_computed_tokens_list, is_prefill_list, seq_group_metadata_list, temp_block_table_list) ==
    LET n == Len(full_tokens_list)
        q_len(idx) ==
            QLen(Len(full_tokens_list[idx]), num_computed_tokens_list[idx])
        rebuilt_query_lens == [idx \in 1 .. n |-> q_len(idx)]
        start_input_pos_idx(idx) ==
            StartIdx(start_pos_list[idx], lmc_num_computed_tokens_list[idx])
        rebuilt_input_tokens ==
            [idx \in 1 .. n |->
                SliceFrom(full_tokens_list[idx], num_computed_tokens_list[idx])]
        rebuilt_input_positions ==
            [idx \in 1 .. n |->
                Slice(mi.input_positions, start_input_pos_idx(idx),
                      start_input_pos_idx(idx) + q_len(idx))]
        rebuilt_slot_mapping ==
            [idx \in 1 .. n |->
                Slice(slot_mapping_flat, start_input_pos_idx(idx),
                      start_input_pos_idx(idx) + q_len(idx))]
        rebuilt_num_prefills ==
            Cardinality({idx \in 1 .. n : is_prefill_list[idx]})
        rebuilt_num_prefill_tokens ==
            SumSeq([idx \in 1 .. n |->
                IF is_prefill_list[idx] THEN q_len(idx) ELSE 0])
        rebuilt_max_query_len == RebuiltMaxQueryLen(rebuilt_query_lens)
        rebuilt_query_start_loc == RebuiltQueryStartLoc(rebuilt_query_lens)
        rebuilt_context_lens_tensor == num_computed_tokens_list
        rebuilt_selected_token_indices ==
            [idx \in 1 .. n |-> SelectedIndex(rebuilt_query_start_loc[idx + 1])]
        rebuilt_attn_metadata ==
            [mi.attn_metadata EXCEPT
               !.num_prefills = rebuilt_num_prefills,
               !.num_prefill_tokens = rebuilt_num_prefill_tokens,
               !.slot_mapping = Cat(rebuilt_slot_mapping),
               !.max_query_len = rebuilt_max_query_len,
               !.block_tables = pad_sequence(temp_block_table_list),
               !.query_start_loc = rebuilt_query_start_loc,
               !.context_lens_tensor = rebuilt_context_lens_tensor,
               !.cached_prefill_metadata = None]
        rebuilt_sampling_metadata ==
            [mi.sampling_metadata EXCEPT
               !.seq_groups = SetQueryLens(@, rebuilt_query_lens),
               !.selected_token_indices = rebuilt_selected_token_indices]
    IN  IF \E idx \in 1 .. n :
              \/ ~(q_len(idx) > 0)
              \/ ~is_prefill_list[idx] /\ q_len(idx) # 1
        THEN [error |-> AssertionError, model_input |-> mi, original |-> mi]
        ELSE IF n > Len(mi.sampling_metadata.seq_groups)
        THEN [error |-> IndexError, model_input |-> mi, original |-> mi]
        ELSE [error |-> "ok",
              model_input |->
                  [input_tokens |-> Cat(rebuilt_input_tokens),
                   input_positions |-> Cat(rebuilt_input_positions),
                   seq_lens |-> mi.seq_lens,
                   query_lens |-> rebuilt_query_lens,
                   lora_mapping |-> mi.lora_mapping,
                   lora_requests |-> mi.lora_requests,
                   attn_metadata |-> rebuilt_attn_metadata,
                   prompt_adapter_mapping |-> mi.prompt_adapter_mapping,
                   prompt_adapter_requests |-> mi.prompt_adapter_requests,
                   multi_modal_kwargs |-> mi.multi_modal_kwargs,
                   request_ids_to_seq_ids |-> mi.request_ids_to_seq_ids,
                   finished_requests_ids |-> mi.finished_requests_ids,
                   virtual_engine |-> mi.virtual_engine,
                   sampling_metadata |-> rebuilt_sampling_metadata,
                   is_prompt |-> mi.is_prompt,
                   async_callback |-> mi.async_callback,
                   seq_group_metadata_list |-> seq_group_metadata_list],
              original |->
                  OriginalAfterRebuild(mi, rebuilt_attn_metadata,
                                       rebuilt_sampling_metadata)]

\* ------------------------------------------------------ retrieve + inject
RECURSIVE SortedSeq(_)
\* the elements of a finite set of integers in increasing order
SortedSeq(S) ==
    IF S = {} THEN <<>>
    ELSE LET m == CHOOSE x \in S : \A y \in S : x <= y
         IN  <<m>> \o SortedSeq(S \ {m})

\* token_mask = ones_like(full_token_tensor); token_mask[:computed] = False:
\* the positions asked of the cache
TokenMask(total_seq_len, vllm_num_computed_tokens) ==
    {p \in Range0(total_seq_len) :
        p >= PyIdx(total_seq_len, vllm_num_computed_tokens)}

\* the total length lmcache_retrieve_kv gives sequence idx of group grp
TotalSeqLen(mi, retrieve_status, grp, seq_id, idx) ==
    IF retrieve_status = "CHUNK_PREFILL"
    THEN At(mi.attn_metadata.seq_lens, idx)
    ELSE Len(grp.seq_data[seq_id].token_ids)

\* variant: the write to the paged memory is dropped
reshape_and_cache_flash_dropped(kv_entries, layer, slots) == layer

\* ops.reshape_and_cache_flash(key, value, key_cache, value_cache, slots):
\* entry j of the retrieved KV is written to slots[j]
reshape_and_cache_flash(kv_entries, layer, slots) ==
    LET cnt == Min(Len(kv_entries), Len(slots))
    IN  [layer EXCEPT
           !.slots = [slot \in DOMAIN @ |->
               IF \E j \in 1 .. cnt : slots[j] = slot
               THEN kv_entries[CHOOSE j \in 1 .. cnt :
                        /\ slots[j] = slot
                        /\ \A i \in 1 .. cnt : slots[i] = slot => i <= j]
               ELSE @[slot]]]

\* variant: one token is given back whether or not the hit was full
DecrementAlways(retrieve_status, num_computed_tokens, total_seq_len) == 1

\* variant: a full hit is kept whole
DecrementNever(retrieve_status, num_computed_tokens, total_seq_len) == 0

\* the full-hit rule: outside CHUNK_PREFILL a sequence whose tokens are all
\* computed gives one back (lmc_num_computed_tokens -= 1 and
\* num_computed_tokens -= 1)
Decrement(retrieve_status, num_computed_tokens, total_seq_len) ==
    IF retrieve_status # "CHUNK_PREFILL" /\ num_computed_tokens = total_seq_len
    THEN 1 ELSE 0

\* variant: every sequence is taken to start at the beginning of the batch
EndPosRestart(start_pos, vllm_num_required_tokens) == 0

\* end_pos = start_pos + vllm_num_required_tokens, the next sequence's
\* start_pos
EndPos(start_pos, vllm_num_required_tokens) ==
    start_pos + vllm_num_required_tokens

\* variant: a chunk whose hit falls short is treated like any other hit
ChunkMissNever(retrieve_status, num_computed_tokens, total_seq_len) == FALSE

\* in CHUNK_PREFILL a hit that does not reach the end of the chunk ends the
\* call at once (return model_input, False)
ChunkMiss(retrieve_status, num_computed_tokens, total_seq_len) ==
    retrieve_status = "CHUNK_PREFILL" /\ num_computed_tokens # total_seq_len

\* One pass of the per-sequence loop body for sequence seq_id of group grp;
\* hit is the engine's ret_token_mask, the set of positions it returned.
RetrieveOne(st, mi, retrieve_status, grp, seq_id, hit) ==
    LET query_start_loc == mi.attn_metadata.query_start_loc
        slot_mapping == mi.attn_metadata.slot_mapping
        idx == st.idx
        total_seq_len == TotalSeqLen(mi, retrieve_status, grp, seq_id, idx)
        full_token_tensor ==
            Slice(grp.seq_data[seq_id].token_ids, 0, total_seq_len)
        vllm_num_required_tokens ==
            At(query_start_loc, idx + 1) - At(query_start_loc, idx)
        start_pos == st.next_start_pos
        end_pos == EndPos(start_pos, vllm_num_required_tokens)
        temp_block_table == grp.block_tables[seq_id]
        vllm_num_computed_tokens == total_seq_len - vllm_num_required_tokens
        kv_tuple == [j \in 1 .. Cardinality(hit) |->
                        KVOf(seq_id, SortedSeq(hit)[j])]
        hit_count == Cardinality(hit)
        full_hit == vllm_num_computed_tokens + hit_count = total_seq_len
        dec == Decrement(retrieve_status, vllm_num_computed_tokens + hit_count,
                         total_seq_len)
        lmc_num_computed_tokens == hit_count - dec
        num_computed_tokens == vllm_num_computed_tokens + hit_count - dec
        called ==
            [st EXCEPT
               !.is_prefill_list = Append(@, grp.is_prompt),
               !.full_tokens_list = Append(@, full_token_tensor),
               !.next_start_pos = end_pos,
               !.start_pos_list = Append(@, start_pos),
               !.temp_block_table_list = Append(@, temp_block_table),
               !.retrieve_calls = Append(@, [tokens |-> full_token_tensor,
                   mask |-> TokenMask(total_seq_len, vllm_num_computed_tokens)]),
               !.hit_list = Append(@, hit)]
        counted ==
            [called EXCEPT
               !.num_computed_tokens_list = Append(@, num_computed_tokens),
               !.lmc_num_computed_tokens_list =
                   Append(@, lmc_num_computed_tokens)]
    IN  IF ChunkMiss(retrieve_status, vllm_num_computed_tokens + hit_count,
                     total_seq_len)
        THEN [called EXCEPT !.returned = TRUE]
        ELSE IF lmc_num_computed_tokens = 0
        THEN [counted EXCEPT
                !.num_request_not_found = @ + 1,
                !.idx = @ + 1]
        ELSE [counted EXCEPT
                !.idx = @ + 1,
                !.kv.layers =
                    [layer_idx \in 1 .. Len(@) |->
                        IF layer_idx <= EndLayer - StartLayer
                        THEN reshape_and_cache_flash(
                                 kv_tuple, @[layer_idx],
                                 Slice(slot_mapping, start_pos,
                                       start_pos + lmc_num_computed_tokens))
                        ELSE @[layer_idx]]]

\* the sequences in the order the loop visits them: every group in batch
\* order, its sequences in the order of request_ids_to_seq_ids
RetrieveOrder(mi) ==
    Cat([g \in 1 .. Len(mi.seq_group_metadata_list) |->
        LET seq_ids ==
                mi.request_ids_to_seq_ids[mi.seq_group_metadata_list[g].request_id]
        IN  [j \in 1 .. Len(seq_ids) |-> [g |-> g, seq_id |-> seq_ids[j]]]])

RECURSIVE RetrieveLoop(_, _, _, _, _)
RetrieveLoop(st, mi, retrieve_status, order, hits) ==
    IF order = <<>> \/ st.returned THEN st
    ELSE RetrieveLoop(
            RetrieveOne(st, mi, retrieve_status,
                        mi.seq_group_metadata_list[Head(order).g],
                        Head(order).seq_id, hits[st.idx + 1]),
            mi, retrieve_status, Tail(order), hits)

RetrieveStart(kv) ==
    [returned |-> FALSE,
     full_tokens_list |-> <<>>,
     num_computed_tokens_list |-> <<>>,
     lmc_num_computed_tokens_list |-> <<>>,
     start_pos_list |-> <<>>,
     is_prefill_list |-> <<>>,
     temp_block_table_list |-> <<>>,
     next_start_pos |-> 0,
     num_request_not_found |-> 0,
     idx |-> 0,
     kv |-> kv,
     retrieve_calls |-> <<>>,
     hit_list |-> <<>>]

\* variant: the plan is rebuilt even when no sequence found anything
RetrieveOutcomeAlwaysRebuild(retrieve_status, num_request_not_found, seq_cnt) ==
    IF retrieve_status = "CHUNK_PREFILL" /\ num_request_not_found = 0
    THEN "skip"
    ELSE IF num_request_not_found <= seq_cnt THEN "rebuilt"
    ELSE "original"

\* the batch-level decision after the loop
RetrieveOutcome(retrieve_status, num_request_not_found, seq_cnt) ==
    IF retrieve_status = "CHUNK_PREFILL" /\ num_request_not_found = 0
    THEN "skip"
    ELSE IF num_request_not_found < seq_cnt THEN "rebuilt"
    ELSE "original"

\* The result is [error, how, model_input, skip, original, kv, st]: the plan
\* and skip flag returned, how the call ended, the caller's plan and the
\* paged memory after the call, and the per-sequence lists it collected.
lmcache_retrieve_kv(eng, mi, kv, retrieve_status, hits) ==
    LET st == RetrieveLoop(RetrieveStart(kv), mi, retrieve_status,
                           RetrieveOrder(mi), hits)
        seq_cnt == Len(mi.attn_metadata.query_start_loc) - 1
        Return(how, plan, skip, s) ==
            [error |-> "ok", how |-> how, model_input |-> plan, skip |-> skip,
             original |-> mi, kv |-> s.kv, st |-> s]
    IN  IF ~eng.registered
        THEN [Return("assert", mi, FALSE, RetrieveStart(kv))
                 EXCEPT !.error = AssertionError]
        ELSE IF eng.enable_blending
        THEN Return("blending", mi, FALSE, RetrieveStart(kv))
        ELSE IF st.returned THEN Return("chunk_miss", mi, FALSE, st)
        ELSE IF \/ st.idx # seq_cnt
                \/ Len(st.lmc_num_computed_tokens_list) # seq_cnt
                \/ Len(st.num_computed_tokens_list) # seq_cnt
        THEN [Return("assert", mi, FALSE, st) EXCEPT !.error = AssertionError]
        ELSE IF RetrieveOutcome(retrieve_status, st.num_request_not_found,
                                seq_cnt) = "skip"
        THEN Return("skip", mi, TRUE, st)
        ELSE IF RetrieveOutcome(retrieve_status, st.num_request_not_found,
                                seq_cnt) = "rebuilt"
        THEN LET r == build_partial_prefill_input(
                          mi, st.full_tokens_list, st.num_computed_tokens_list,
                          st.start_pos_list, mi.attn_metadata.slot_mapping,
                          st.lmc_num_computed_tokens_list, st.is_prefill_list,
                          mi.seq_group_metadata_list, st.temp_block_table_list)
             IN  [error |-> r.error, how |-> "rebuilt",
                  model_input |-> r.model_input, skip |-> FALSE,
                  original |-> r.original, kv |-> st.kv, st |-> st]
        ELSE Return("original", mi, FALSE, st)

\* engine.retrieve(tokens, mask) -> (kv_tuple, ret_mask): the engine looks
\* the requested positions up in order and stops at the first miss, so the
\* positions it returns are a run that starts at the first position asked for
HitMasks(mask) ==
    {{p \in mask : Cardinality({r \in mask : r < p}) < cnt} :
        cnt \in 0 .. Cardinality(mask)}

\* one returned mask for every sequence of the batch
RECURSIVE HitLists(_)
HitLists(masks) ==
    IF masks = <<>> THEN {<<>>}
    ELSE {<<m>> \o rest : m \in HitMasks(Head(masks)), rest \in HitLists(Tail(masks))}
\* the token_mask lmcache_retrieve_kv passes for every sequence of the batch
RequestedMasks(mi, retrieve_status) ==
    LET order == RetrieveOrder(mi)
        mask(k) ==
            LET grp == mi.seq_group_metadata_list[order[k].g]
                total == TotalSeqLen(mi, retrieve_status, grp,
                                     order[k].seq_id, k - 1)
                required == mi.attn_metadata.query_start_loc[k + 1]
                            - mi.attn_metadata.query_start_loc[k]
            IN  TokenMask(total, total - required)
    IN  [k \in 1 .. Len(order) |-> mask(k)]
HitChoices(mi, retrieve_status) == HitLists(RequestedMasks(mi, retrieve_status))

\* the retrieve contract read as the words have it: the engine may return
\* the KV of any subset of the positions asked for
RECURSIVE HitListsAnySubset(_)
HitListsAnySubset(masks) ==
    IF masks = <<>> THEN {<<>>}
    ELSE {<<m>> \o rest : m \in SUBSET Head(masks),
                          rest \in HitListsAnySubset(Tail(masks))}
HitChoicesAnySubset(mi, retrieve_status) ==
    HitListsAnySubset(RequestedMasks(mi, retrieve_status))

\* ------------------------------------------------------- lookup + store
\* engine.lookup(tokens): the number of leading tokens the engine holds.  A
\* range stored in this step is held whole; for any other range the answer
\* is whatever the engine's contents make it, v
EngineLookup(cache, tokens, v) == IF tokens \in cache THEN Len(tokens) ELSE v

\* engine.store(tokens, kv, mask, skip_existing, blocking): afterwards the
\* engine holds the range
EngineStore(cache, tokens) == cache \cup {tokens}

\* the length lmcache_store_kv gives the sequence at seq_data_idx
StoreSeqLen(status, seq_lens, seq_data_idx, token_ids) ==
    IF status \in {"SUFFIX_PREFILL", "CHUNK_PREFILL"}
    THEN At(seq_lens, seq_data_idx)
    ELSE Len(token_ids)

\* compute_slot_mapping(False, slot_mapping, seqid, seq_len, context_len, 0,
\* block_size, block_tables): the slots of positions context_len .. seq_len-1
compute_slot_mapping(seq_len, context_len, block_table) ==
    [j \in 1 .. (seq_len - context_len) |->
        SlotOf(block_table, context_len + j - 1)]

\* key_cache[slot_mapping], value_cache[slot_mapping] of one layer
GatherKV(layer, slot_mapping) ==
    [j \in 1 .. Len(slot_mapping) |-> layer.slots[slot_mapping[j]]]

\* variant: the whole range is marked valid
KvTensorsMaskWhole(seq_len, skipped_token_num) == [j \in 1 .. seq_len |-> TRUE]

\* kv_tensors_mask = ones_like(current_tokens);
\* kv_tensors_mask[:skipped_token_num] = False
KvTensorsMask(seq_len, skipped_token_num) ==
    [j \in 1 .. seq_len |-> j > PyIdx(seq_len, skipped_token_num)]

\* whether the loop goes on to the next sequence without reaching the
\* seq_data_idx += 1 at the end of the body
StoreContinues(status, seq_len, chunk_size) ==
    \/ status = "NONE"
    \/ status = "DECODE" /\ seq_len % chunk_size # 0

\* variant: only the range of skip_leading_tokens is asserted
LookupInRange(skip_leading_tokens, seq_len, chunk_size) ==
    skip_leading_tokens <= seq_len

\* what the two assertions on skip_leading_tokens let through
LookupAccepted(skip_leading_tokens, seq_len, chunk_size) ==
    /\ skip_leading_tokens <= seq_len
    /\ skip_leading_tokens < seq_len => skip_leading_tokens % chunk_size = 0

\* variant: the store is submitted whatever the lookup answered
SubmitsStoreAlways(skip_leading_tokens, seq_len, slot_mapping) == TRUE

\* if skip_leading_tokens < seq_len: ... if len(slot_mapping) > 0: the
\* sequence has a tail to submit to engine.store
SubmitsStore(skip_leading_tokens, seq_len, slot_mapping) ==
    skip_leading_tokens < seq_len /\ Len(slot_mapping) > 0

\* One pass of the loop body for sequence seq_id of group grp.
StoreOne(st, eng, mi, kv, store_status, grp, seq_id, v) ==
    LET seq_lens == mi.attn_metadata.seq_lens
        status == At(store_status, st.seq_data_idx)
        token_ids == grp.seq_data[seq_id].token_ids
        seq_len == StoreSeqLen(status, seq_lens, st.seq_data_idx, token_ids)
        current_tokens == Slice(token_ids, 0, seq_len)
        skip_leading_tokens == EngineLookup(st.cache, current_tokens, v)
        slot_mapping ==
            compute_slot_mapping(seq_len, skip_leading_tokens,
                                 grp.block_tables[seq_id])
        kv_tuple_list ==
            [l \in 1 .. (EndLayer - StartLayer) |->
                GatherKV(kv.layers[l], slot_mapping)]
        stored_token_num == Len(slot_mapping)
        skipped_token_num == seq_len - stored_token_num
        looked ==
            [st EXCEPT
               !.lookups = Append(@, [seq_id |-> seq_id,
                                      seq_data_idx |-> st.seq_data_idx,
                                      status |-> status,
                                      seq_len |-> seq_len,
                                      tokens |-> current_tokens,
                                      skip_leading_tokens |-> skip_leading_tokens])]
    IN  IF StoreContinues(status, seq_len, eng.chunk_size) THEN st
        ELSE IF ~LookupAccepted(skip_leading_tokens, seq_len, eng.chunk_size)
        THEN [looked EXCEPT !.error = AssertionError]
        ELSE IF SubmitsStore(skip_leading_tokens, seq_len, slot_mapping)
        THEN [looked EXCEPT
                !.stores = Append(@, [seq_id |-> seq_id,
                                      tokens |-> current_tokens,
                                      kv |-> kv_tuple_list,
                                      mask |-> KvTensorsMask(seq_len,
                                                             skipped_token_num),
                                      skip_existing |-> TRUE,
                                      blocking |-> FALSE]),
                !.cache = EngineStore(@, current_tokens),
                !.seq_data_idx = @ + 1]
        ELSE [looked EXCEPT !.seq_data_idx = @ + 1]

\* the sequences in the order the store loop visits them: every group in
\* batch order, its sequences in the order of seq_data.items()
StoreOrder(mi) ==
    Cat([g \in 1 .. Len(mi.seq_group_metadata_list) |->
        [j \in 1 .. Len(mi.seq_group_metadata_list[g].seq_ids) |->
            [g |-> g, seq_id |-> mi.seq_group_metadata_list[g].seq_ids[j]]]])

RECURSIVE StoreLoop(_, _, _, _, _, _, _)
StoreLoop(st, eng, mi, kv, store_status, order, v) ==
    IF order = <<>> \/ st.error # "ok" THEN st
    ELSE StoreLoop(
            StoreOne(st, eng, mi, kv, store_status,
                     mi.seq_group_metadata_list[Head(order).g],
                     Head(order).seq_id, v),
            eng, mi, kv, store_status, Tail(order), v)

StoreStart(cache) ==
    [error |-> "ok", seq_data_idx |-> 0, lookups |-> <<>>, stores |-> <<>>,
     cache |-> cache]

\* The result is [error, seq_data_idx, lookups, stores, cache]: the calls of
\* engine.lookup and engine.store the invocation made, in order, and the
\* ranges the engine holds afterwards; error names the exception raised.
lmcache_store_kv(eng, mi, kv, store_status, cache, v) ==
    IF ~eng.registered
    THEN [StoreStart(cache) EXCEPT !.error = AssertionError]
    ELSE StoreLoop(StoreStart(cache), eng, mi, kv, store_status,
                   StoreOrder(mi), v)

\* =========================================================== state machine
VARIABLES
    engine,           \* LMCacheEngineBuilder's entry for ENGINE_NAME
    pc,               \* where the worker is in its step
    model_input,      \* the plan the scheduler produced for this step
    kv_caches,        \* the paged memory passed to the hooks
    retrieve_status,  \* what lmcache_should_retrieve returned
    rv,               \* what lmcache_retrieve_kv returned and collected
    plan,             \* the plan handed to execution
    store_status,     \* what lmcache_should_store returned
    sv                \* what lmcache_store_kv did, and what it had stored

vars == <<engine, pc, model_input, kv_caches, retrieve_status, rv, plan,
          store_status, sv>>

\* the values the per-step variables hold between steps
NoPlan == [none |-> TRUE]
NoKv == [is_none |-> TRUE, layers |-> <<>>]
NoRetrieve ==
    [error |-> "ok", how |-> "none", model_input |-> NoPlan, skip |-> FALSE,
     original |-> NoPlan, kv |-> NoKv, st |-> RetrieveStart(NoKv)]
NoStore == [error |-> "ok", store_status |-> <<>>]
\* no store invocation yet, and nothing stored in this step
NoStoreKV == StoreStart({})
\* the answers an engine can give to a lookup
LookupAnswers == 0 .. (MaxLen + 1)

\* the configurations lmcache_get_config() can load
EngineConfigs ==
    [registered : {TRUE}, chunk_size : {ChunkSize},
     save_decode_cache : BOOLEAN, enable_blending : BOOLEAN]

\* the blend_metadata the blending adapter may have left on attn_metadata
BlendChoices(eng) ==
    IF eng.registered /\ eng.enable_blending
    THEN {NoBlend} \cup [present : {TRUE}, processed_layer_count : {0, 1}]
    ELSE {NoBlend}

Init ==
    /\ engine = NoEngine
    /\ pc = "idle"
    /\ model_input = NoPlan
    /\ kv_caches = NoKv
    /\ retrieve_status = "NONE"
    /\ rv = NoRetrieve
    /\ plan = NoPlan
    /\ store_status = NoStore
    /\ sv = NoStoreKV

StepReset ==
    /\ model_input' = NoPlan
    /\ kv_caches' = NoKv
    /\ retrieve_status' = "NONE"
    /\ rv' = NoRetrieve
    /\ plan' = NoPlan
    /\ store_status' = NoStore
    /\ sv' = NoStoreKV

\* variant: the engine is built and registered on every call
InitEngineAgain(eng, config) == config

\* the entry for ENGINE_NAME after init_lmcache_engine: the call returns at
\* once when an engine is registered, otherwise get_or_create registers one
\* built from the loaded config
InitEngine(eng, config) == IF eng.registered THEN eng ELSE config

init_lmcache_engine ==
    /\ pc \in {"idle", "shutdown"}
    /\ \E config \in EngineConfigs : engine' = InitEngine(engine, config)
    /\ pc' = "idle"
    /\ UNCHANGED <<model_input, kv_caches, retrieve_status, rv, plan,
                   store_status, sv>>

\* close_lmcache_engine: LMCacheEngineBuilder.destroy(ENGINE_NAME)
close_lmcache_engine ==
    /\ pc = "idle"
    /\ engine' = NoEngine
    /\ pc' = "shutdown"
    /\ UNCHANGED <<model_input, kv_caches, retrieve_status, rv, plan,
                   store_status, sv>>

\* the scheduler and model runner prepare the step's plan and paged memory
Prepare ==
    /\ pc = "idle"
    /\ \E b \in Batches, mode \in {"None", "Profile", "Alloc"},
          blend \in BlendChoices(engine) :
          /\ model_input' = ModelInput(b, blend)
          /\ plan' = model_input'
          /\ kv_caches' = KvCaches(mode, b)
    /\ pc' = "prepared"
    /\ UNCHANGED <<engine, retrieve_status, rv, store_status, sv>>

ShouldRetrieve ==
    /\ pc = "prepared"
    /\ retrieve_status' = lmcache_should_retrieve(engine, model_input, kv_caches)
    /\ pc' = IF retrieve_status' = AssertionError THEN "failed"
             ELSE "retrieve_classified"
    /\ UNCHANGED <<engine, model_input, kv_caches, rv, plan, store_status, sv>>

\* the model runner calls lmcache_retrieve_kv when the mode is not NONE
RetrieveKV ==
    /\ pc = "retrieve_classified"
    /\ retrieve_status # "NONE"
    /\ \E hits \in HitChoices(model_input, retrieve_status) :
          rv' = lmcache_retrieve_kv(engine, model_input, kv_caches,
                                    retrieve_status, hits)
    /\ plan' = rv'.model_input
    /\ model_input' = rv'.original
    /\ kv_caches' = rv'.kv
    /\ pc' = IF rv'.error # "ok" THEN "failed" ELSE "retrieved"
    /\ UNCHANGED <<engine, retrieve_status, store_status, sv>>

\* the forward pass of the plan: the KV of every token it computes lands in
\* the token's slot, in every layer; a skipped step computes nothing
ExecutedLayer(layer, p) ==
    LET order == RetrieveOrder(p)
        qsl == p.attn_metadata.query_start_loc
        owner(j) == CHOOSE k \in 1 .. Len(order) : qsl[k] < j /\ j <= qsl[k + 1]
    IN  IF layer.is_none THEN layer
        ELSE [layer EXCEPT
                !.slots = [slot \in DOMAIN @ |->
                    IF \E j \in 1 .. Len(p.attn_metadata.slot_mapping) :
                           p.attn_metadata.slot_mapping[j] = slot
                    THEN LET j == CHOOSE j \in 1 .. Len(p.attn_metadata.slot_mapping) :
                                      p.attn_metadata.slot_mapping[j] = slot
                         IN  KVOf(order[owner(j)].seq_id, p.input_positions[j])
                    ELSE @[slot]]]

Execute ==
    /\ \/ pc = "retrieved"
       \/ pc = "retrieve_classified" /\ retrieve_status = "NONE"
    /\ IF rv.skip
       THEN /\ pc' = "done"
            /\ UNCHANGED kv_caches
       ELSE /\ pc' = "executed"
            /\ kv_caches' =
                   [kv_caches EXCEPT
                      !.layers = [l \in 1 .. Len(@) |-> ExecutedLayer(@[l], plan)]]
    /\ UNCHANGED <<engine, model_input, retrieve_status, rv, plan, store_status,
                   sv>>

ShouldStore ==
    /\ pc = "executed"
    /\ store_status' = lmcache_should_store(engine, plan, kv_caches)
    /\ pc' = IF store_status'.error # "ok" THEN "failed" ELSE "store_classified"
    /\ UNCHANGED <<engine, model_input, kv_caches, retrieve_status, rv, plan, sv>>

\* the model runner calls lmcache_store_kv when some label is not NONE
StoreWanted ==
    \E k \in 1 .. Len(store_status.store_status) :
        store_status.store_status[k] # "NONE"

StoreKV ==
    /\ pc = "store_classified"
    /\ StoreWanted
    /\ \E v \in LookupAnswers :
          sv' = lmcache_store_kv(engine, plan, kv_caches,
                                 store_status.store_status, sv.cache, v)
    /\ pc' = IF sv'.error # "ok" THEN "failed" ELSE "stored"
    /\ UNCHANGED <<engine, model_input, kv_caches, retrieve_status, rv, plan,
                   store_status>>

\* the same sequences come to lmcache_store_kv a second time, unchanged,
\* while the engine still holds what the first invocation stored
StoreKVAgain ==
    /\ pc = "stored"
    /\ \E v \in LookupAnswers :
          sv' = lmcache_store_kv(engine, plan, kv_caches,
                                 store_status.store_status, sv.cache, v)
    /\ pc' = IF sv'.error # "ok" THEN "failed" ELSE "stored_again"
    /\ UNCHANGED <<engine, model_input, kv_caches, retrieve_status, rv, plan,
                   store_status>>

\* the step is over (or was aborted): the worker waits for the next plan
EndStep ==
    /\ \/ pc \in {"stored", "stored_again", "done", "failed"}
       \/ pc = "store_classified" /\ ~StoreWanted
    /\ pc' = "idle"
    /\ StepReset
    /\ UNCHANGED engine

Next ==
    \/ init_lmcache_engine
    \/ close_lmcache_engine
    \/ Prepare
    \/ ShouldRetrieve
    \/ RetrieveKV
    \/ Execute
    \/ ShouldStore
    \/ StoreKV
    \/ StoreKVAgain
    \/ EndStep

Spec == Init /\ [][Next]_vars

\* the same worker against an engine that may return any subset of the
\* positions asked for
RetrieveKVAnySubset ==
    /\ pc = "retrieve_classified"
    /\ retrieve_status # "NONE"
    /\ \E hits \in HitChoicesAnySubset(model_input, retrieve_status) :
          rv' = lmcache_retrieve_kv(engine, model_input, kv_caches,
                                    retrieve_status, hits)
    /\ plan' = rv'.model_input
    /\ model_input' = rv'.original
    /\ kv_caches' = rv'.kv
    /\ pc' = IF rv'.error # "ok" THEN "failed" ELSE "retrieved"
    /\ UNCHANGED <<engine, retrieve_status, store_status, sv>>

NextAnySubset ==
    \/ init_lmcache_engine
    \/ close_lmcache_engine
    \/ Prepare
    \/ ShouldRetrieve
    \/ RetrieveKVAnySubset
    \/ Execute
    \/ ShouldStore
    \/ StoreKV
    \/ StoreKVAgain
    \/ EndStep

SpecAnySubset == Init /\ [][NextAnySubset]_vars

\* ================================================================ claims
\* what the step's original plan says about the batch
NumSeqs == Len(model_input.attn_metadata.seq_lens)
NumSampled == Len(model_input.sampling_metadata.selected_token_indices)
AllPrefill ==
    \A g \in 1 .. Len(model_input.seq_group_metadata_list) :
        model_input.seq_group_metadata_list[g].is_prompt
\* lmcache_should_retrieve has returned in this step
Classified == pc \notin {"idle", "shutdown", "prepared"}
\* no engine is registered, or the step is a memory-profiling dry run
Bypass ==
    \/ ~engine.registered
    \/ kv_caches.is_none
    \/ kv_caches.layers[1].is_none
\* lmcache_retrieve_kv has returned in this step / has returned a rebuilt plan
Retrieved == rv.how # "none"
Rebuilt == rv.how = "rebuilt" /\ rv.error = "ok"

\* sequence k of the batch, in batch order
SeqIdOf(k) == RetrieveOrder(model_input)[k].seq_id
GroupOf(k) == model_input.seq_group_metadata_list[RetrieveOrder(model_input)[k].g]
FullTokens(k) == GroupOf(k).seq_data[SeqIdOf(k)].token_ids
OrigQ(k) ==
    model_input.attn_metadata.query_start_loc[k + 1]
    - model_input.attn_metadata.query_start_loc[k]
\* the length retrieval works with, and the tokens the engine had computed
TotalLen(k) ==
    IF retrieve_status = "CHUNK_PREFILL"
    THEN model_input.attn_metadata.seq_lens[k] ELSE Len(FullTokens(k))
EngineComputed(k) == TotalLen(k) - OrigQ(k)
\* the number of positions the cache returned for sequence k
RawHit(k) == Cardinality(rv.st.hit_list[k])
Lmc(k) == rv.st.lmc_num_computed_tokens_list[k]
Computed(k) == rv.st.num_computed_tokens_list[k]

\* C1 (as claimed): with an engine active and paged buffers allocated,
\* lmcache_should_retrieve returns CHUNK_PREFILL exactly when every sequence
\* is in prefill and no position is sampled, PREFILL exactly when every
\* sequence is in prefill and one position per sequence is sampled, and NONE
\* for every other batch.
C1_RetrieveModeByComposition ==
    (Classified /\ ~Bypass) =>
        /\ (retrieve_status = "CHUNK_PREFILL") <=> (AllPrefill /\ NumSampled = 0)
        /\ (retrieve_status = "PREFILL") <=> (AllPrefill /\ NumSampled = NumSeqs)
        /\ ~(AllPrefill /\ NumSampled \in {0, NumSeqs}) => retrieve_status = "NONE"

\* C2: without an engine, or in a memory-profiling dry run, the retrieve mode
\* is NONE and the store labels are one NONE per sequence, whatever the
\* batch; and the classification calls leave the plan, the paged memory, the
\* engine and the record of engine calls as they were.
C2_BypassLabels ==
    /\ (Classified /\ Bypass) => retrieve_status = "NONE"
    /\ (pc = "store_classified" /\ Bypass) =>
           store_status =
               [error |-> "ok", store_status |-> [k \in 1 .. NumSeqs |-> "NONE"]]
C2_BypassIsSideEffectFree ==
    /\ []C2_BypassLabels
    /\ [][(pc \in {"prepared", "executed"}) =>
              /\ model_input' = model_input
              /\ plan' = plan
              /\ kv_caches' = kv_caches
              /\ rv' = rv
              /\ sv' = sv
              /\ engine' = engine]_vars
\* a registered engine in a profiling run, on a two-chunk batch
C2_Witness ==
    /\ pc = "store_classified"
    /\ engine.registered
    /\ ~kv_caches.is_none /\ kv_caches.layers[1].is_none
    /\ NumSeqs = 2 /\ AllPrefill /\ NumSampled = 0

\* C3 (as claimed): the classification functions never raise: every call
\* returns a label or a list of labels.
C3_ClassifiersTotal ==
    /\ retrieve_status \in RetrieveStatus
    /\ store_status.error = "ok"

\* C4: outside CHUNK_PREFILL a sequence whose engine-computed plus cache-hit
\* tokens equal its full length has both counts reduced by one, so that one
\* token remains, and no other sequence is reduced; in CHUNK_PREFILL a hit
\* covering the whole remaining range is kept as it is and the skip signal
\* is returned.
C4_FullHitDecrement ==
    (Retrieved /\ rv.how # "blending") =>
        /\ \A k \in 1 .. Len(rv.st.lmc_num_computed_tokens_list) :
              IF retrieve_status # "CHUNK_PREFILL"
                 /\ EngineComputed(k) + RawHit(k) = TotalLen(k)
              THEN /\ Lmc(k) = RawHit(k) - 1
                   /\ Computed(k) = EngineComputed(k) + RawHit(k) - 1
                   /\ TotalLen(k) - Computed(k) = 1
              ELSE /\ Lmc(k) = RawHit(k)
                   /\ Computed(k) = EngineComputed(k) + RawHit(k)
        /\ (/\ retrieve_status = "CHUNK_PREFILL"
            /\ Len(rv.st.hit_list) = NumSeqs
            /\ \A k \in 1 .. NumSeqs :
                  EngineComputed(k) + RawHit(k) = TotalLen(k))
           => rv.skip /\ rv.how = "skip" /\ plan = model_input
\* a full hit of three tokens next to a partial hit
C4_Witness ==
    /\ pc = "retrieved"
    /\ retrieve_status = "PREFILL"
    /\ NumSeqs = 2 /\ Len(rv.st.hit_list) = 2
    /\ RawHit(1) = 3 /\ EngineComputed(1) = 0 /\ Lmc(1) = 2
    /\ RawHit(2) = 1 /\ OrigQ(2) = 2 /\ Lmc(2) = 1

\* every sequence of a CHUNK_PREFILL batch found its whole remaining range
AllFullCover ==
    /\ retrieve_status = "CHUNK_PREFILL"
    /\ Len(rv.st.hit_list) = NumSeqs
    /\ \A k \in 1 .. NumSeqs : RawHit(k) = OrigQ(k)
\* the engine returned no position for any sequence
NoneFound == \A k \in 1 .. Len(rv.st.hit_list) : RawHit(k) = 0
\* no sequence is left with a cache-hit count after the full-hit rule
NoHitLeft == \A k \in 1 .. Len(rv.st.lmc_num_computed_tokens_list) : Lmc(k) = 0
ReturnedOriginal == rv.how # "rebuilt" /\ plan = model_input /\ rv.error = "ok"

\* C5 (as claimed): full coverage in CHUNK_PREFILL gives the original plan
\* with skip; no coverage found by any sequence gives the original plan
\* without skip; every other case gives the rebuilt plan without skip; skip
\* is returned in no other case.
C5_ThreeOutcomes ==
    Retrieved =>
        /\ AllFullCover => (ReturnedOriginal /\ rv.skip)
        /\ (~AllFullCover /\ NoneFound) => (ReturnedOriginal /\ ~rv.skip)
        /\ (~AllFullCover /\ ~NoneFound) => (Rebuilt /\ ~rv.skip)
        /\ rv.skip => AllFullCover

\* C5 (amended): the original plan is also returned, without skip, when the
\* mode is CHUNK_PREFILL and the coverage is not full, and when no sequence
\* keeps a non-zero cache-hit count after the full-hit decrement; the plan
\* is rebuilt in the remaining cases only.
C5_OutcomesAfterDecrement ==
    Retrieved =>
        /\ AllFullCover => (ReturnedOriginal /\ rv.skip)
        /\ (~AllFullCover /\ (retrieve_status = "CHUNK_PREFILL" \/ NoHitLeft))
               => (ReturnedOriginal /\ ~rv.skip)
        /\ (~AllFullCover /\ retrieve_status # "CHUNK_PREFILL" /\ ~NoHitLeft)
               => (Rebuilt /\ ~rv.skip)
        /\ rv.skip => AllFullCover
\* a chunk whose non-empty hit does not reach the end of the chunk
C5_Witness ==
    /\ pc = "retrieved"
    /\ retrieve_status = "CHUNK_PREFILL"
    /\ Len(rv.st.hit_list) = 1
    /\ RawHit(1) = 1 /\ OrigQ(1) = 2
    /\ ReturnedOriginal /\ ~rv.skip

\* C6: in a rebuilt plan every sequence's query length is its original query
\* length less its cache-hit count after the decrement, and so are the sums.
C6_Conservation ==
    Rebuilt =>
        /\ Len(plan.query_lens) = NumSeqs
        /\ \A k \in 1 .. NumSeqs : plan.query_lens[k] = OrigQ(k) - Lmc(k)
        /\ SumSeq(plan.query_lens) =
               SumSeq(model_input.query_lens)
               - SumSeq(rv.st.lmc_num_computed_tokens_list)
\* one sequence reduced by the decrement rule, one by a partial hit
C6_Witness ==
    /\ Rebuilt /\ NumSeqs = 2
    /\ RawHit(1) = OrigQ(1) /\ Lmc(1) = 1
    /\ RawHit(2) = 1 /\ OrigQ(2) = 3 /\ plan.query_lens = <<1, 2>>

\* C7: the rebuilt query-start-location list begins at 0, has one entry more
\* than there are sequences, is strictly increasing and ends at the number
\* of tokens of the rebuilt token, position and slot-mapping tensors.
C7_RebuiltBoundaries ==
    Rebuilt =>
        LET qsl == plan.attn_metadata.query_start_loc
        IN  /\ Len(qsl) = NumSeqs + 1
            /\ qsl[1] = 0
            /\ \A k \in 1 .. NumSeqs : qsl[k] < qsl[k + 1]
            /\ qsl[NumSeqs + 1] = Len(plan.input_tokens)
            /\ qsl[NumSeqs + 1] = Len(plan.input_positions)
            /\ qsl[NumSeqs + 1] = Len(plan.attn_metadata.slot_mapping)
C7_Witness ==
    /\ Rebuilt /\ NumSeqs = 2
    /\ plan.attn_metadata.query_start_loc = <<0, 2, 3>>
    /\ model_input.attn_metadata.query_start_loc = <<0, 3, 5>>

\* C8: in a rebuilt plan the sampling index of sequence i is the last
\* position of its new range and the token there is the sequence's last token.
C8_SamplesFinalToken ==
    Rebuilt =>
        LET sel == plan.sampling_metadata.selected_token_indices
        IN  /\ Len(sel) = NumSeqs
            /\ \A k \in 1 .. NumSeqs :
                  /\ sel[k] = plan.attn_metadata.query_start_loc[k + 1] - 1
                  /\ sel[k] \in Range0(Len(plan.input_tokens))
                  /\ At(plan.input_tokens, sel[k]) =
                         At(FullTokens(k), Len(FullTokens(k)) - 1)
C8_Witness ==
    /\ Rebuilt /\ NumSeqs = 2
    /\ plan.sampling_metadata.selected_token_indices = <<0, 2>>
    /\ model_input.sampling_metadata.selected_token_indices = <<2, 4>>

\* the part of a flat tensor that belongs to sequence k under boundaries qsl
Part(flat, qsl, k) == Slice(flat, qsl[k], qsl[k + 1])

\* C9: a sequence of a rebuilt batch whose cache-hit count is zero keeps its
\* query length, tokens, positions, slots and block-table entries, whatever
\* the other sequences got from the cache.
C9_ZeroHitUntouched ==
    Rebuilt =>
        \A k \in 1 .. NumSeqs :
            Lmc(k) = 0 =>
                LET new == plan.attn_metadata.query_start_loc
                    old == model_input.attn_metadata.query_start_loc
                    table == GroupOf(k).block_tables[SeqIdOf(k)]
                IN  /\ plan.query_lens[k] = OrigQ(k)
                    /\ Part(plan.input_tokens, new, k) =
                           Part(model_input.input_tokens, old, k)
                    /\ Part(plan.input_positions, new, k) =
                           Part(model_input.input_positions, old, k)
                    /\ Part(plan.attn_metadata.slot_mapping, new, k) =
                           Part(model_input.attn_metadata.slot_mapping, old, k)
                    /\ \A j \in 1 .. Len(table) :
                           plan.attn_metadata.block_tables[k][j] = table[j]
\* two sequences of two tokens, the first fully hit, the second not at all
C9_Witness ==
    /\ Rebuilt /\ NumSeqs = 2
    /\ Len(FullTokens(1)) = 2 /\ Len(FullTokens(2)) = 2
    /\ RawHit(1) = 2 /\ RawHit(2) = 0 /\ Lmc(2) = 0
    /\ plan.query_lens = <<1, 2>>
    /\ plan.attn_metadata.query_start_loc = <<0, 1, 3>>

\* C10: the rebuilt plan carries every other batch-level field of the
\* original over unchanged, and the rewrite leaves the original plan,
\* its attention and sampling metadata included, as it was.
C10_CarriedFields ==
    Rebuilt =>
        /\ plan.lora_mapping = model_input.lora_mapping
        /\ plan.lora_requests = model_input.lora_requests
        /\ plan.prompt_adapter_mapping = model_input.prompt_adapter_mapping
        /\ plan.prompt_adapter_requests = model_input.prompt_adapter_requests
        /\ plan.multi_modal_kwargs = model_input.multi_modal_kwargs
        /\ plan.request_ids_to_seq_ids = model_input.request_ids_to_seq_ids
        /\ plan.finished_requests_ids = model_input.finished_requests_ids
        /\ plan.virtual_engine = model_input.virtual_engine
        /\ plan.is_prompt = model_input.is_prompt
        /\ plan.async_callback = model_input.async_callback
        /\ plan.seq_group_metadata_list = model_input.seq_group_metadata_list
        /\ plan.seq_lens = model_input.seq_lens
C10_RewriteFrame ==
    /\ []C10_CarriedFields
    /\ [][(pc = "retrieve_classified" /\ pc' # "retrieve_classified") =>
              /\ model_input'.attn_metadata = model_input.attn_metadata
              /\ model_input'.sampling_metadata = model_input.sampling_metadata
              /\ model_input' = model_input]_vars
C10_Witness ==
    /\ Rebuilt /\ NumSeqs = 2
    /\ plan.attn_metadata # model_input.attn_metadata
    /\ plan.sampling_metadata # model_input.sampling_metadata

\* the store labels of the step and the sequences in store order
Labels == store_status.store_status
StoreSeqIdOf(k) == StoreOrder(plan)[k].seq_id
StoreGroupOf(k) == plan.seq_group_metadata_list[StoreOrder(plan)[k].g]
StoreTokens(k) == StoreGroupOf(k).seq_data[StoreSeqIdOf(k)].token_ids
\* the length the store path is to use for sequence k: the batch-reported
\* length for the two partial labels, the full token count otherwise
OwnStoreLen(k) ==
    IF Labels[k] \in {"SUFFIX_PREFILL", "CHUNK_PREFILL"}
    THEN plan.attn_metadata.seq_lens[k] ELSE Len(StoreTokens(k))
\* sequence k is one the store path is to process
ToStore(k) ==
    /\ Labels[k] # "NONE"
    /\ Labels[k] = "DECODE" => OwnStoreLen(k) % engine.chunk_size = 0
\* lmcache_store_kv has returned from its first invocation of the step
Stored == pc = "stored"

\* C11 (as claimed): in one invocation of lmcache_store_kv every sequence
\* whose label is not NONE (for DECODE: whose length is chunk-aligned) is
\* looked up with its own label, its own length and its own token prefix,
\* whatever the labels of the sequences before it.
C11_EachSequenceOwnLabel ==
    Stored =>
        \A k \in 1 .. Len(Labels) :
            ToStore(k) =>
                \E c \in 1 .. Len(sv.lookups) :
                    /\ sv.lookups[c].seq_id = StoreSeqIdOf(k)
                    /\ sv.lookups[c].status = Labels[k]
                    /\ sv.lookups[c].seq_len = OwnStoreLen(k)
                    /\ sv.lookups[c].tokens =
                           Slice(StoreTokens(k), 0, OwnStoreLen(k))

\* lookup c of the invocation was its last, and the invocation aborted on it
AbortedOn(c) == sv.error = AssertionError /\ c = Len(sv.lookups)
\* the invocation submitted the sequence of lookup c to engine.store
StoreIssuedFor(c) ==
    \E d \in 1 .. Len(sv.stores) : sv.stores[d].seq_id = sv.lookups[c].seq_id

\* C12 (as claimed): lmcache_store_kv aborts, with no store call for the
\* sequence, whenever the lookup returns a count above seq_len or a count
\* that is not a multiple of chunk_size, a non-aligned count equal to
\* seq_len included.
C12_AbortOnAnyMisalignedSkip ==
    \A c \in 1 .. Len(sv.lookups) :
        (\/ sv.lookups[c].skip_leading_tokens > sv.lookups[c].seq_len
         \/ sv.lookups[c].skip_leading_tokens % engine.chunk_size # 0)
            => (AbortedOn(c) /\ ~StoreIssuedFor(c))

\* C12 (amended): lmcache_store_kv aborts, with no store call for the
\* sequence, exactly when the lookup returns a count above seq_len, or a
\* count below seq_len that is not a multiple of chunk_size; a count equal
\* to seq_len is accepted whatever its alignment, and nothing is stored.
C12_AbortOnRejectedSkip ==
    /\ \A c \in 1 .. Len(sv.lookups) :
          LET skip == sv.lookups[c].skip_leading_tokens
              seq_len == sv.lookups[c].seq_len
          IN  /\ (\/ skip > seq_len
                  \/ skip < seq_len /\ skip % engine.chunk_size # 0)
                     <=> AbortedOn(c)
              /\ AbortedOn(c) => ~StoreIssuedFor(c)
              /\ skip = seq_len => ~StoreIssuedFor(c)
    /\ sv.error # "ok" => Len(sv.lookups) > 0
\* a one-token sequence answered 1 is accepted, the three-token sequence
\* after it, answered 1 as well, aborts the invocation
C12_Witness ==
    /\ pc = "failed"
    /\ Len(sv.lookups) = 2
    /\ sv.lookups[1].seq_len = 1 /\ sv.lookups[1].skip_leading_tokens = 1
    /\ sv.lookups[2].seq_len = 3 /\ sv.lookups[2].skip_leading_tokens = 1
    /\ AbortedOn(2)

\* the position in store order of the sequence with this id
StoreIndexOf(seq_id) ==
    CHOOSE k \in 1 .. Len(StoreOrder(plan)) : StoreSeqIdOf(k) = seq_id

\* C13: every call of engine.store passes the sequence's first seq_len
\* token ids, a mask that is false exactly on [0, skip_leading_tokens) and
\* true exactly on [skip_leading_tokens, seq_len), one KV entry per layer
\* of the worker's range gathered at the slots of that tail, skip_existing
\* = true and blocking = false.
C13_StoreArguments ==
    \A d \in 1 .. Len(sv.stores) :
        \E c \in 1 .. Len(sv.lookups) :
            LET call == sv.stores[d]
                seq_len == sv.lookups[c].seq_len
                skip == sv.lookups[c].skip_leading_tokens
                k == StoreIndexOf(call.seq_id)
                table == StoreGroupOf(k).block_tables[call.seq_id]
            IN  /\ sv.lookups[c].seq_id = call.seq_id
                /\ skip < seq_len
                /\ call.tokens = SubSeq(StoreTokens(k), 1, seq_len)
                /\ Len(call.mask) = seq_len
                /\ \A j \in 1 .. seq_len : call.mask[j] <=> (j - 1 >= skip)
                /\ Len(call.kv) = EndLayer - StartLayer
                /\ \A l \in 1 .. Len(call.kv) :
                      /\ Len(call.kv[l]) = seq_len - skip
                      /\ \A j \in 1 .. (seq_len - skip) :
                            call.kv[l][j] =
                                kv_caches.layers[l].slots[
                                    SlotOf(table, skip + j - 1)]
                /\ call.skip_existing
                /\ ~call.blocking
\* a three-token sequence whose first chunk the engine holds
C13_Witness ==
    /\ Stored
    /\ Len(sv.stores) = 1 /\ Len(sv.lookups) = 1
    /\ sv.lookups[1].seq_len = 3 /\ sv.lookups[1].skip_leading_tokens = 2
    /\ sv.stores[1].mask = <<FALSE, FALSE, TRUE>>
    /\ Len(sv.stores[1].kv) = 2

\* C14: a lookup that returns seq_len is followed by no store call; and a
\* second lmcache_store_kv on the unchanged sequences gets, for every range
\* the first one stored, a lookup equal to the range length, issues no
\* store call for it and leaves what the engine holds unchanged.
C14_NoStoreWhenAllCached ==
    \A c \in 1 .. Len(sv.lookups) :
        sv.lookups[c].skip_leading_tokens = sv.lookups[c].seq_len
            => ~StoreIssuedFor(c)
C14_StoreIdempotent ==
    /\ []C14_NoStoreWhenAllCached
    /\ [][(pc = "stored" /\ pc' \in {"stored_again", "failed"}) =>
              /\ \A c \in 1 .. Len(sv'.lookups) :
                    sv'.lookups[c].tokens \in sv.cache =>
                        /\ sv'.lookups[c].skip_leading_tokens =
                               sv'.lookups[c].seq_len
                        /\ \A d \in 1 .. Len(sv'.stores) :
                               sv'.stores[d].seq_id # sv'.lookups[c].seq_id
              /\ \A d \in 1 .. Len(sv.stores) :
                    sv'.error = "ok" =>
                        \E c \in 1 .. Len(sv'.lookups) :
                            sv'.lookups[c].tokens = sv.stores[d].tokens
              /\ (\A c \in 1 .. Len(sv'.lookups) :
                     sv'.lookups[c].tokens \in sv.cache)
                     => (sv'.stores = <<>> /\ sv'.cache = sv.cache)]_vars
\* the second invocation looked up two ranges the first one had stored
C14_Witness ==
    /\ pc = "stored_again"
    /\ Len(sv.lookups) = 2 /\ sv.stores = <<>>
    /\ sv.lookups[1].tokens \in sv.cache /\ sv.lookups[1].seq_len = 3
    /\ sv.lookups[2].tokens \in sv.cache
    /\ Cardinality(sv.cache) = 2

\* the batch holds decode sequences only; the blending pass has run
DecodeOnly ==
    \A g \in 1 .. Len(model_input.seq_group_metadata_list) :
        ~model_input.seq_group_metadata_list[g].is_prompt
BlendEffective ==
    /\ plan.attn_metadata.blend_metadata.present
    /\ plan.attn_metadata.blend_metadata.processed_layer_count > 0
StoreLabel(k) == store_status.store_status[k]
StoreClassified == pc = "store_classified" /\ store_status.error = "ok"

\* C15 (as claimed): in a decode-only batch, with an engine active, paged
\* buffers allocated and no blending pass, a sequence is labelled DECODE
\* exactly when its current length is a multiple of chunk_size, and NONE
\* otherwise.
C15_DecodeAtChunkBoundary ==
    (StoreClassified /\ DecodeOnly /\ ~Bypass /\ ~BlendEffective) =>
        /\ Len(store_status.store_status) = NumSeqs
        /\ \A k \in 1 .. NumSeqs :
              StoreLabel(k) =
                  IF Len(FullTokens(k)) % engine.chunk_size = 0
                  THEN "DECODE" ELSE "NONE"
\* C15 (amended): the same, but DECODE only when the engine is configured to
\* save the decode cache; without save_decode_cache every label is NONE.
C15_DecodeAtChunkBoundaryWhenSaving ==
    (StoreClassified /\ DecodeOnly /\ ~Bypass /\ ~BlendEffective) =>
        /\ Len(store_status.store_status) = NumSeqs
        /\ \A k \in 1 .. NumSeqs :
              StoreLabel(k) =
                  IF /\ engine.save_decode_cache
                     /\ Len(FullTokens(k)) % engine.chunk_size = 0
                  THEN "DECODE" ELSE "NONE"
\* two decode sequences, one at a chunk boundary and one past it
C15_Witness ==
    /\ StoreClassified /\ DecodeOnly /\ ~Bypass /\ ~BlendEffective
    /\ engine.save_decode_cache
    /\ NumSeqs = 2
    /\ Len(FullTokens(1)) = 2 /\ Len(FullTokens(2)) = 3
    /\ store_status.store_status = <<"DECODE", "NONE">>

\* the query length of sequence k in the plan handed to execution
PlanQ(k) ==
    plan.attn_metadata.query_start_loc[k + 1]
    - plan.attn_metadata.query_start_loc[k]
\* the label the store rule gives sequence k of a fully-prefill batch
PrefillLabel(k) ==
    IF ~GroupOf(k).do_sample THEN "CHUNK_PREFILL"
    ELSE IF PlanQ(k) = Len(FullTokens(k)) THEN "PREFILL"
    ELSE "SUFFIX_PREFILL"

\* C16: in a fully-prefill batch every sequence gets one label, at its own
\* position: CHUNK_PREFILL when its group does not sample, otherwise PREFILL
\* when its whole prompt is computed and sampled in this step and
\* SUFFIX_PREFILL when only a suffix is; at every position of the batch.
C16_PrefillLabelPerSequence ==
    (StoreClassified /\ AllPrefill /\ ~Bypass /\ ~BlendEffective) =>
        /\ Len(store_status.store_status) = NumSeqs
        /\ \A k \in 1 .. NumSeqs : StoreLabel(k) = PrefillLabel(k)

\* C17: when the blending pass has populated KV for the step (blend metadata
\* present, processed-layer count positive) every store label is NONE,
\* whatever the batch; and with enable_blending set lmcache_retrieve_kv
\* returns the plan it was given with skip = false, calls no retrieve and
\* writes no slot of the paged memory.
C17_BlendingLabels ==
    /\ (StoreClassified /\ BlendEffective) =>
           store_status.store_status = [k \in 1 .. NumSeqs |-> "NONE"]
    /\ (Retrieved /\ engine.enable_blending) =>
           /\ rv.error = "ok" /\ rv.how = "blending"
           /\ rv.model_input = model_input /\ plan = model_input
           /\ ~rv.skip
           /\ rv.st.retrieve_calls = <<>>
C17_BlendingBypassesCache ==
    /\ []C17_BlendingLabels
    /\ [][(pc = "retrieve_classified" /\ pc' \in {"retrieved", "failed"}
             /\ engine.enable_blending) =>
              /\ kv_caches' = kv_caches
              /\ plan' = plan
              /\ model_input' = model_input]_vars
\* a two-prompt batch that went through lmcache_retrieve_kv under blending
\* and was then labelled for storing
C17_Witness ==
    /\ StoreClassified /\ BlendEffective
    /\ rv.how = "blending"
    /\ ~Bypass /\ AllPrefill /\ NumSeqs = 2 /\ NumSampled = 2

\* the positions of sequence k whose retrieved KV is injected: the first
\* Lmc(k) positions the cache returned
InjectedPositions(k) ==
    {SortedSeq(rv.st.hit_list[k])[j] : j \in 1 .. Lmc(k)}
HandedBack == pc = "retrieved" /\ rv.how \in {"rebuilt", "skip"}

\* C18: when lmcache_retrieve_kv hands back a rewritten plan or the skip
\* signal, engine.retrieve has been called for every sequence of the batch
\* and, for every sequence with injected tokens, the retrieved KV of each
\* injected position is in that position's slot in every layer of the
\* worker's range; and nothing of the retrieval changes after the return
\* until the step is over.
C18_AllInjectedAtReturn ==
    HandedBack =>
        /\ Len(rv.st.retrieve_calls) = NumSeqs
        /\ Len(rv.st.lmc_num_computed_tokens_list) = NumSeqs
        /\ Len(kv_caches.layers) = EndLayer - StartLayer
        /\ \A k \in 1 .. NumSeqs :
              /\ rv.st.retrieve_calls[k].tokens =
                     Slice(FullTokens(k), 0, TotalLen(k))
              /\ \A p \in InjectedPositions(k), l \in 1 .. Len(kv_caches.layers) :
                     kv_caches.layers[l].slots[
                         SlotOf(GroupOf(k).block_tables[SeqIdOf(k)], p)] =
                             KVOf(SeqIdOf(k), p)
C18_RetrieveBeforeExecution ==
    /\ []C18_AllInjectedAtReturn
    /\ [][(pc \notin {"idle", "shutdown", "prepared", "retrieve_classified"}
             /\ pc' # "idle") => rv' = rv]_vars
    /\ [][(pc = "retrieve_classified" /\ pc' \in {"executed", "done"}) =>
              rv' = rv]_vars
\* a rebuilt plan for two prompts, each with injected tokens
C18_Witness ==
    /\ HandedBack /\ rv.how = "rebuilt"
    /\ NumSeqs = 2
    /\ Lmc(1) = 2 /\ Lmc(2) = 1

\* C19: the entry for ENGINE_NAME is absent before the first
\* init_lmcache_engine and after close_lmcache_engine; only
\* init_lmcache_engine registers an engine; and while an engine is
\* registered no call replaces or changes it, so there is never a second
\* one.
C19_AbsentAfterClose == (pc = "shutdown") => ~engine.registered
C19_EngineSingleton ==
    /\ ~engine.registered
    /\ []C19_AbsentAfterClose
    /\ [][(engine.registered /\ engine'.registered) => engine' = engine]_vars
    /\ [][(~engine.registered /\ engine'.registered) =>
              /\ pc \in {"idle", "shutdown"} /\ pc' = "idle"
              /\ engine' \in EngineConfigs]_vars
    /\ [][(engine.registered /\ ~engine'.registered) =>
              (pc = "idle" /\ pc' = "shutdown" /\ engine' = NoEngine)]_vars
\* an engine is registered, and init_lmcache_engine can be called again
C19_Witness ==
    /\ pc = "idle"
    /\ engine.registered
    /\ engine.save_decode_cache /\ engine.enable_blending
    /\ ENABLED init_lmcache_engine

\* the query length build_partial_prefill_input computes for sequence k
ReducedQ(k) == Len(rv.st.full_tokens_list[k]) - Computed(k)
RewriterInvoked == rv.how = "rebuilt"

\* C20: whenever lmcache_retrieve_kv invokes build_partial_prefill_input on
\* a batch whose original query lengths are all at least 1, every reduced
\* query length is at least 1, every decode sequence's is exactly 1, and
\* no lmc_num_computed_tokens is negative, so the rewriter raises no
\* AssertionError.
C20_RewriterAssertionsHold ==
    (RewriterInvoked /\ \A k \in 1 .. NumSeqs : OrigQ(k) >= 1) =>
        /\ rv.error # AssertionError
        /\ Len(rv.st.full_tokens_list) = NumSeqs
        /\ \A k \in 1 .. NumSeqs :
              /\ ReducedQ(k) >= 1
              /\ ~GroupOf(k).is_prompt => ReducedQ(k) = 1
              /\ Lmc(k) >= 0
              /\ rv.error = "ok" => rv.model_input.query_lens[k] = ReducedQ(k)
\* the rewriter ran on a batch where one sequence was found whole and gave
\* one token back, and another was found in part
C20_Witness ==
    /\ RewriterInvoked /\ rv.error = "ok"
    /\ NumSeqs = 2
    /\ RawHit(1) = OrigQ(1) /\ Lmc(1) = RawHit(1) - 1 /\ ReducedQ(1) = 1
    /\ RawHit(2) = 1 /\ OrigQ(2) = 2 /\ Lmc(2) = 1

\* the flat slot ranges of sequence k in the original plan: its own range,
\* and the part of it lmcache_retrieve_kv injects into
OrigSlotMapping == model_input.attn_metadata.slot_mapping
OrigQsl == model_input.attn_metadata.query_start_loc
OwnSlots(k) == {OrigSlotMapping[j] : j \in (OrigQsl[k] + 1) .. OrigQsl[k + 1]}
InjectSlots(k) ==
    {OrigSlotMapping[j] : j \in (OrigQsl[k] + 1) .. (OrigQsl[k] + Lmc(k))}
Processed == 1 .. Len(rv.st.lmc_num_computed_tokens_list)
\* the slots of the paged memory whose content differs between kv and kv2
ChangedSlots(kv, kv2) ==
    {slot \in Range0(NumSlots) :
        \E l \in 1 .. Len(kv.layers) :
            /\ ~kv.layers[l].is_none
            /\ kv.layers[l].slots[slot] # kv2.layers[l].slots[slot]}

\* C21: for every sequence lmcache_retrieve_kv processed, the range it
\* injects into starts at the sequence's own query_start_loc and is no
\* longer than its original query; the range the rewritten plan keeps for
\* recomputation is the rest of that same original range; no injected slot
\* belongs to another sequence or is kept for recomputation; and the call
\* changes no slot outside the injected ranges.
C21_SlotRanges ==
    (Retrieved /\ rv.error = "ok") =>
        /\ \A k \in Processed :
              /\ rv.st.start_pos_list[k] = OrigQsl[k]
              /\ 0 <= Lmc(k) /\ Lmc(k) <= OrigQ(k)
              /\ \A k2 \in 1 .. NumSeqs :
                    k2 # k => InjectSlots(k) \cap OwnSlots(k2) = {}
        /\ Rebuilt =>
              /\ rv.model_input.attn_metadata.slot_mapping =
                     Cat([k \in 1 .. NumSeqs |->
                             Slice(OrigSlotMapping, OrigQsl[k] + Lmc(k),
                                   OrigQsl[k + 1])])
              /\ \A k \in 1 .. NumSeqs :
                    /\ rv.model_input.query_lens[k] = OrigQ(k) - Lmc(k)
                    /\ \A j \in 1 .. Len(rv.model_input.attn_metadata.slot_mapping) :
                          rv.model_input.attn_metadata.slot_mapping[j]
                              \notin InjectSlots(k)
C21_InjectOwnSlotsOnly ==
    /\ []C21_SlotRanges
    /\ [][(pc = "retrieve_classified" /\ pc' = "retrieved") =>
              ChangedSlots(kv_caches, kv_caches') \subseteq
                  UNION {InjectSlots(k)' : k \in Processed'}]_vars
\* a rebuilt plan for two prompts: two slots of the first and one of the
\* second were injected, one of the second is kept for recomputation
C21_Witness ==
    /\ Rebuilt /\ pc = "retrieved"
    /\ NumSeqs = 2
    /\ Lmc(1) = 2 /\ OrigQ(1) = 3
    /\ Lmc(2) = 1 /\ OrigQ(2) = 2
    /\ Len(rv.model_input.attn_metadata.slot_mapping) = 2

\* the flat index, in the original plan, of logical position p of sequence k
FlatIndexOf(k, p) == OrigQsl[k] + (p - EngineComputed(k)) + 1
\* the positions of sequence k the rewritten plan computes
RecomputedPositions(k) ==
    LET qsl == rv.model_input.attn_metadata.query_start_loc
    IN  {rv.model_input.input_positions[j] : j \in (qsl[k] + 1) .. qsl[k + 1]}

\* C22: whatever subset of the requested positions the engine returns,
\* every injected KV entry is in the slot the original slot mapping gives
\* to the entry's own position, in every layer, and the positions the
\* rewritten plan computes are those neither computed by the engine nor
\* injected.
C22_InjectedAtOwnPosition ==
    (pc = "retrieved" /\ rv.how \in {"rebuilt", "skip"}) =>
        \A k \in 1 .. NumSeqs :
            /\ \A p \in InjectedPositions(k), l \in 1 .. Len(kv_caches.layers) :
                  kv_caches.layers[l].slots[OrigSlotMapping[FlatIndexOf(k, p)]]
                      = KVOf(SeqIdOf(k), p)
            /\ rv.how = "rebuilt" =>
                  RecomputedPositions(k) =
                      {p \in Range0(TotalLen(k)) :
                          p >= EngineComputed(k) /\ p \notin InjectedPositions(k)}

\* the hit of some processed sequence stops short of the end of its chunk
ChunkFellShort ==
    \E k \in 1 .. Len(rv.st.hit_list) :
        EngineComputed(k) + RawHit(k) # TotalLen(k)

\* C23: in CHUNK_PREFILL mode the rewriter is never invoked; and when the
\* hit does not cover the rest of the chunk, lmcache_retrieve_kv returns
\* the plan it was given with skip = false and leaves every slot of the
\* paged memory as it was, whatever the hit count.
C23_ChunkOutcome ==
    (Retrieved /\ retrieve_status = "CHUNK_PREFILL"
        /\ rv.how \notin {"blending", "assert"}) =>
        /\ rv.how # "rebuilt"
        /\ ChunkFellShort =>
              /\ rv.how = "chunk_miss" /\ rv.error = "ok"
              /\ rv.model_input = model_input /\ plan = model_input
              /\ ~rv.skip
        /\ ~ChunkFellShort => rv.skip
C23_ChunkMissLeavesMemory ==
    /\ []C23_ChunkOutcome
    /\ [][(pc = "retrieve_classified" /\ retrieve_status = "CHUNK_PREFILL"
             /\ pc' = "retrieved" /\ ChunkFellShort') =>
              /\ kv_caches' = kv_caches
              /\ model_input' = model_input]_vars
\* a two-token chunk for which the cache returned the first token only:
\* the token's slot is still empty
C23_Witness ==
    /\ pc = "retrieved"
    /\ retrieve_status = "CHUNK_PREFILL"
    /\ rv.how = "chunk_miss"
    /\ RawHit(1) = 1 /\ OrigQ(1) = 2
    /\ \A l \in 1 .. Len(kv_caches.layers) :
          kv_caches.layers[l].slots[OrigSlotMapping[1]] = Empty

\* the query length left to sequence k after injection
LeftQ(k) == OrigQ(k) - Lmc(k)
PrefillSeqs == {k \in 1 .. NumSeqs : GroupOf(k).is_prompt}

\* C24: in a rewritten plan every sequence's context length is its
\* engine-computed plus injected token count, context length plus reduced
\* query length is the sequence's full token count, num_prefills is the
\* number of prefill sequences, num_prefill_tokens the sum of their reduced
\* query lengths and max_query_len the largest reduced query length.
C24_RebuiltCounters ==
    (pc = "retrieved" /\ Rebuilt) =>
        LET meta == rv.model_input.attn_metadata
        IN  /\ Len(meta.context_lens_tensor) = NumSeqs
            /\ \A k \in 1 .. NumSeqs :
                  /\ meta.context_lens_tensor[k] = EngineComputed(k) + Lmc(k)
                  /\ meta.context_lens_tensor[k] = Computed(k)
                  /\ meta.context_lens_tensor[k] + rv.model_input.query_lens[k]
                         = Len(FullTokens(k))
                  /\ rv.model_input.query_lens[k] = LeftQ(k)
            /\ meta.num_prefills = Cardinality(PrefillSeqs)
            /\ meta.num_prefill_tokens =
                   SumSeq([k \in 1 .. NumSeqs |->
                              IF k \in PrefillSeqs THEN LeftQ(k) ELSE 0])
            /\ \A k \in 1 .. NumSeqs : meta.max_query_len >= LeftQ(k)
            /\ \E k \in 1 .. NumSeqs : meta.max_query_len = LeftQ(k)
\* two prompts rebuilt to query lengths 2 and 1: contexts 1 and 1, two
\* prefills, three prefill tokens, maximum 2
C24_Witness ==
    /\ pc = "retrieved" /\ Rebuilt /\ NumSeqs = 2
    /\ rv.model_input.query_lens = <<2, 1>>
    /\ rv.model_input.attn_metadata.context_lens_tensor = <<1, 1>>
    /\ rv.model_input.attn_metadata.num_prefills = 2
    /\ rv.model_input.attn_metadata.num_prefill_tokens = 3
    /\ rv.model_input.attn_metadata.max_query_len = 2

\* C25: no sequence in its prefill phase is labelled DECODE, and in a batch
\* that mixes prefill and decode sequences every prefill sequence is
\* labelled NONE.
C25_PrefillNeverDecode ==
    StoreClassified =>
        /\ Len(store_status.store_status) = NumSeqs
        /\ \A k \in PrefillSeqs :
              /\ StoreLabel(k) # "DECODE"
              /\ (~AllPrefill /\ ~DecodeOnly) => StoreLabel(k) = "NONE"

\* every sequence of the batch is a prefill that samples in this step, and
\* one of them has part of its prompt computed already (a final chunk)
FinalChunkBatch ==
    /\ AllPrefill /\ NumSampled = NumSeqs
    /\ \E k \in 1 .. NumSeqs : model_input.attn_metadata.context_lens_tensor[k] > 0

\* C26: lmcache_should_retrieve never returns CHUNK_PREFILL_LAST, so
\* lmcache_retrieve_kv runs with PREFILL or CHUNK_PREFILL only; a batch of
\* sampling prefills with a final chunk in it is classified PREFILL, and
\* the retrieval then works with every sequence's full token list.
C26_NoChunkPrefillLast ==
    /\ retrieve_status # "CHUNK_PREFILL_LAST"
    /\ Retrieved => retrieve_status \in {"PREFILL", "CHUNK_PREFILL"}
    /\ (pc = "retrieve_classified" /\ ~Bypass /\ FinalChunkBatch) =>
           retrieve_status = "PREFILL"
    /\ (pc = "retrieved" /\ rv.how \notin {"blending", "assert"}
           /\ FinalChunkBatch) =>
           /\ Len(rv.st.full_tokens_list) = NumSeqs
           /\ \A k \in 1 .. NumSeqs :
                 /\ rv.st.full_tokens_list[k] = FullTokens(k)
                 /\ rv.st.retrieve_calls[k].tokens = FullTokens(k)
\* the last token of a three-token prompt, two tokens computed before
C26_Witness ==
    /\ pc = "retrieved" /\ FinalChunkBatch
    /\ NumSeqs = 1
    /\ model_input.attn_metadata.context_lens_tensor[1] = 2
    /\ retrieve_status = "PREFILL"
    /\ rv.st.full_tokens_list = <<FullTokens(1)>>
    /\ Len(FullTokens(1)) = 3

====
